---- MODULE Spec2Model ----
(***************************************************************************)
(* auto-natpmp: the NAT-PMP renewal daemon of src/auto-natpmp.py.          *)
(*                                                                         *)
(* The model follows main() statement by statement.  The main thread is a  *)
(* program counter `pc`; the signal handler handle_exit is an action that  *)
(* may run at any value of pc (Python runs a signal handler in the main    *)
(* thread between two bytecodes, and sys.exit raises SystemExit at the     *)
(* point that was interrupted).  The environment supplies: the outcome of  *)
(* mkdir, the outcome of each natpmpc call (exit status and stdout), the   *)
(* outcome of open() and of write() on the port file, and the signals.     *)
(* Removing an existing port file is taken to succeed.                     *)
(***************************************************************************)
EXTENDS Integers, Sequences, FiniteSets, TLC

\* ------------------------------------------------------------------ bounds
\* Number of loop iterations explored.
MaxIter == 3
\* Number of lines of a natpmpc stdout.
MaxOut == 2
\* Number of cleanups (handler and finally block) explored.
MaxClears == 3

\* ------------------------------------------------------- program constants
\* time.sleep(5) of the two retry branches (lines 158 and 168).
RETRY_SLEEP == 5
\* DEFAULT_SLEEP_TIME (line 18).
DEFAULT_SLEEP_TIME == 45

\* DEFAULT_FORWARD_LIFETIME (line 17).
DEFAULT_FORWARD_LIFETIME == 60
\* DEFAULT_LOCAL_PORT (line 21).
DEFAULT_LOCAL_PORT == 0
\* DEFAULT_EXTERNAL_PORT (line 22).
DEFAULT_EXTERNAL_PORT == 1
\* DEFAULT_GATEWAY_IP (line 16).
DEFAULT_GATEWAY_IP == "10.2.0.1"

\* Values of --sleep-time explored (type=int, no range check, line 34): the
\* default, a short one and a negative one.
SleepTimes == {RETRY_SLEEP, DEFAULT_SLEEP_TIME, 0 - 1}

\* Values of --lifetime explored (type=int, no range check, line 32): the
\* default and half of it.
Lifetimes == {DEFAULT_FORWARD_LIFETIME, DEFAULT_FORWARD_LIFETIME \div 2}

\* ------------------------------------------------------------------ values
\* Python's None where a str is expected (ports are the digit strings that
\* re.search returns; they are never converted to int).
None == "None"
\* Port numbers as natpmpc prints them.
Ports == {"4000", "4001"}

\* Lines natpmpc may print: one without the pattern, one per mapped port.
NoiseLine == "initnatpmp() returned 0 (SUCCESS)"
MappedLine(p) == <<"Mapped public port", p>>
Lines == {<<NoiseLine, None>>} \cup {MappedLine(p) : p \in Ports}

\* All stdout texts of at most MaxOut lines; <<>> is the empty string.
Texts == UNION {[1..n -> Lines] : n \in 0..MaxOut}

\* The value of `udp_output` / `tcp_output`: None or a str.
NoneOutput == [isNone |-> TRUE, text |-> <<>>]
StrOutput(t) == [isNone |-> FALSE, text |-> t]

\* What one subprocess.run of natpmpc can do: exit zero or non-zero
\* (CalledProcessError) with some stdout, or fail to start (OSError, e.g.
\* natpmpc is not installed), which run_natpmpc_command does not catch.
ToolResults ==
    {[exit |-> "oserror", stdout |-> <<>>]}
    \cup {[exit |-> e, stdout |-> t] : e \in {"zero", "nonzero"}, t \in Texts}

\* ---------------------------------------------------------- pure functions
\* The command line of lines 81-82.
natpmpc_cmd_TcpDefaultLifetime(protocol, external_port, local_port, lifetime, gateway_ip) ==
    <<"natpmpc", "-a", external_port, local_port, protocol,
      IF protocol = "tcp" THEN DEFAULT_FORWARD_LIFETIME ELSE lifetime,
      "-g", gateway_ip>>
natpmpc_cmd(protocol, external_port, local_port, lifetime, gateway_ip) ==
    <<"natpmpc", "-a", external_port, local_port, protocol, lifetime,
      "-g", gateway_ip>>

\* run_natpmpc_command: stdout on exit zero, None on CalledProcessError
\* (check=True of line 86).
run_natpmpc_command_NoCheck(r) == StrOutput(r.stdout)
run_natpmpc_command(r) ==
    IF r.exit = "zero" THEN StrOutput(r.stdout) ELSE NoneOutput

\* Python truthiness `not output` of an Optional[str]: None and "" are falsy.
NotOutput(o) == o.isNone \/ o.text = <<>>

\* re.search(r"Mapped public port (\d+)", text): group(1) of the leftmost
\* match, None when no line matches.
RECURSIVE SearchFrom(_, _)
SearchFrom(t, i) ==
    IF i > Len(t) THEN None
    ELSE IF t[i][1] = "Mapped public port" THEN t[i][2]
    ELSE SearchFrom(t, i + 1)

\* extract_public_port
extract_public_port(o) ==
    IF NotOutput(o) THEN None ELSE SearchFrom(o.text, 1)

\* Truthiness of a port value (`if udp_port and tcp_port`): a str is truthy
\* unless empty, and \d+ never matches the empty string.
Truthy(p) == p /= None /\ p /= ""

\* The port published for a validated pair: tcp_port (lines 179-181).
CanonicalPort_UDP(udp, tcp) == udp
CanonicalPort(udp, tcp) == tcp

\* `udp_port != tcp_port` (line 175), a comparison of strings.
PortsMismatch_Always(udp, tcp) == TRUE
PortsMismatch(udp, tcp) == udp /= tcp

\* `current_port != tcp_port` (line 179).
PortChanged_Always(cur, new) == TRUE
PortChanged(cur, new) == cur /= new

\* ------------------------------------------------------------------- state
VARIABLES
    pc,            \* position of the main thread
    file,          \* the port file: [exists, content]
    current_port,  \* main's current_port (last_known_port)
    udp_port,      \* main's udp_port
    tcp_port,      \* main's tcp_port
    sleep_time,    \* the configured --sleep-time
    forward_lifetime,  \* the configured --lifetime
    exit_code,     \* exit status of the process once pc = "exited"
    pending,       \* status carried by the return / SystemExit in flight
    iter,          \* number of iterations started
    log,           \* messages logged in the current iteration
    \* history, read by the properties only
    last_call,     \* the latest natpmpc call: [proto, exit, empty, iter]
    last_wait,     \* the latest time.sleep: [kind, secs]
    calls,         \* natpmpc runs of the current iteration: [cmd, exit]
    iter_file,     \* the port file when the current iteration started
    iter_port,     \* current_port when the current iteration started
    iter_nwrites,  \* Len(writes) when the current iteration started
    validated,     \* canonical ports validated so far, in order
    writes,        \* ports passed to save_port_to_file so far, in order
    last_write,    \* the latest save_port_to_file: [port, ok]
    signalled,     \* a signal has been handled
    signal_at,     \* pc at the first signal
    writes_at_signal,  \* Len(writes) at the first signal
    calls_after_signal,  \* natpmpc calls issued after a signal was handled
    dir_state,     \* setup_port_directory: "pending", "ok" or "failed"
    clears,        \* cleanups run (handle_exit's and the finally block's)
    removes,       \* os.remove calls that removed the port file
    clear_errors   \* cleanups in which os.remove raised

vars == <<pc, file, current_port, udp_port, tcp_port, sleep_time,
          forward_lifetime, exit_code, pending, iter, log, last_call,
          last_wait, calls, iter_file, iter_port,
          iter_nwrites, validated, writes, last_write, signalled, signal_at,
          writes_at_signal, calls_after_signal, dir_state, clears, removes,
          clear_errors>>

hist_calls == <<last_call, calls_after_signal, calls>>
config == <<sleep_time, forward_lifetime>>
hist_signal == <<signalled, signal_at, writes_at_signal>>
hist_iter == <<iter_file, iter_port, iter_nwrites>>
hist_clear == <<clears, removes, clear_errors>>

NoFile == [exists |-> FALSE, content |-> ""]
FileWith(c) == [exists |-> TRUE, content |-> c]

Running == 0 - 1
NoCall == [proto |-> "none", exit |-> "none", empty |-> FALSE, iter |-> 0]
NoWait == [kind |-> "none", secs |-> 0]
NoWrite == [port |-> None, ok |-> TRUE]

\* State when main reaches the loop: handlers registered (line 142), the
\* directory not yet ensured (line 145).  A port file may be left over from
\* an earlier run that was killed without cleanup.
Init ==
    /\ pc = "setup_dir"
    /\ file \in {NoFile} \cup {FileWith(p) : p \in Ports}
    /\ current_port = None
    /\ udp_port = None
    /\ tcp_port = None
    /\ sleep_time \in SleepTimes
    /\ forward_lifetime \in Lifetimes
    /\ exit_code = Running
    /\ pending = Running
    /\ iter = 0
    /\ log = {}
    /\ last_call = NoCall
    /\ last_wait = NoWait
    /\ calls = <<>>
    /\ iter_file = file
    /\ iter_port = None
    /\ iter_nwrites = 0
    /\ validated = <<>>
    /\ writes = <<>>
    /\ last_write = NoWrite
    /\ signalled = FALSE
    /\ signal_at = "none"
    /\ writes_at_signal = 0
    /\ calls_after_signal = 0
    /\ dir_state = "pending"
    /\ clears = 0
    /\ removes = 0
    /\ clear_errors = 0

\* The history q with x recorded, as long as it covers no more than the
\* MaxIter iterations that are counted.
Remember(q, x) == IF Len(q) < MaxIter THEN Append(q, x) ELSE q

\* Top of the while loop (line 151): a new iteration starts.
BeginIteration ==
    /\ iter < MaxIter
    /\ pc' = "udp"
    /\ iter' = iter + 1
    /\ log' = {}
    /\ calls' = <<>>
    /\ iter_file' = file
    /\ iter_port' = current_port
    /\ iter_nwrites' = Len(writes)

\* Outcomes of Path(port_dir).mkdir(parents=True, exist_ok=True) (line 64):
\* it cannot fail when the port file exists, for then its directory does.
MkdirOutcomes(f) == IF f.exists THEN {TRUE} ELSE BOOLEAN

\* setup_port_directory (lines 60-68): mkdir succeeds, or the error is
\* logged and sys.exit(1) ends the process.
setup_port_directory_Continues ==
    /\ pc = "setup_dir"
    /\ \E ok \in MkdirOutcomes(file) :
         dir_state' = IF ok THEN "ok" ELSE "failed"
    /\ BeginIteration
    /\ UNCHANGED <<file, current_port, udp_port, tcp_port, config,
                   exit_code, pending, last_call, calls_after_signal,
                   last_wait, validated, writes, last_write, hist_signal,
                   hist_clear>>

setup_port_directory ==
    /\ pc = "setup_dir"
    /\ \E ok \in MkdirOutcomes(file) :
         IF ok
         THEN /\ BeginIteration
              /\ dir_state' = "ok"
              /\ UNCHANGED exit_code
         ELSE /\ pc' = "exited"
              /\ exit_code' = 1
              /\ dir_state' = "failed"
              /\ log' = log \cup {<<"setup", "failed">>}
              /\ UNCHANGED <<iter, calls, hist_iter>>
    /\ UNCHANGED <<file, current_port, udp_port, tcp_port, config,
                   pending, last_call, calls_after_signal, last_wait,
                   validated, writes,
                   last_write, hist_signal, hist_clear>>

\* One natpmpc call of the loop, for `proto`, continuing at `next` when the
\* output is truthy (lines 154-159 and 164-169), with the extraction that
\* follows it (lines 161 and 171).  An OSError of subprocess.run is not
\* caught by run_natpmpc_command: it reaches `except Exception` of main
\* (lines 189-191), which returns 1 through the finally block.
Request(proto, next) ==
    \E r \in ToolResults :
      LET output == run_natpmpc_command(r)
          port == extract_public_port(output)
      IN  /\ last_call' = [proto |-> proto, exit |-> r.exit,
                           empty |-> (r.exit = "zero" /\ r.stdout = <<>>),
                           iter |-> iter]
          /\ calls_after_signal' =
                IF signalled THEN 1 ELSE calls_after_signal
          /\ calls' = Append(calls,
                [cmd |-> natpmpc_cmd(proto, DEFAULT_EXTERNAL_PORT,
                                     DEFAULT_LOCAL_PORT, forward_lifetime,
                                     DEFAULT_GATEWAY_IP),
                 exit |-> r.exit])
          /\ IF r.exit = "oserror"
             THEN /\ pc' = "finally"
                  /\ pending' = 1
                  /\ log' = log \cup {<<"main", "unexpected_error">>}
                  /\ UNCHANGED <<udp_port, tcp_port>>
             ELSE IF NotOutput(output)
             THEN /\ pc' = "backoff"
                  /\ log' = log \cup {<<proto, "failed">>}
                  /\ UNCHANGED <<udp_port, tcp_port, pending>>
             ELSE /\ pc' = next
                  /\ log' = IF port = None
                            THEN log \cup {<<proto, "no_port">>} ELSE log
                  /\ udp_port' = IF proto = "udp" THEN port ELSE udp_port
                  /\ tcp_port' = IF proto = "tcp" THEN port ELSE tcp_port
                  /\ UNCHANGED pending

\* Lines 153-161: the UDP request.
RequestUDP ==
    /\ pc = "udp"
    /\ Request("udp", "tcp")
    /\ UNCHANGED <<file, current_port, config, exit_code, iter,
                   last_wait, hist_iter,
                   validated, writes,
                   last_write, hist_signal, dir_state, hist_clear>>

\* Lines 163-171: the TCP request.
RequestTCP ==
    /\ pc = "tcp"
    /\ Request("tcp", "validate")
    /\ UNCHANGED <<file, current_port, config, exit_code, iter,
                   last_wait, hist_iter,
                   validated, writes,
                   last_write, hist_signal, dir_state, hist_clear>>

\* Lines 173-184, up to the call of save_port_to_file.
Validate ==
    /\ pc = "validate"
    /\ IF Truthy(udp_port) /\ Truthy(tcp_port)
       THEN LET new == CanonicalPort(udp_port, tcp_port)
            IN  /\ validated' = Remember(validated, new)
                /\ log' = IF PortsMismatch(udp_port, tcp_port)
                          THEN log \cup {<<"main", "mismatch">>} ELSE log
                /\ IF PortChanged(current_port, new)
                   THEN /\ current_port' = new
                        /\ pc' = "save"
                   ELSE /\ pc' = "sleep"
                        /\ UNCHANGED current_port
       ELSE /\ log' = log \cup {<<"main", "extract_failed">>}
            /\ pc' = "sleep"
            /\ UNCHANGED <<current_port, validated>>
    /\ UNCHANGED <<file, udp_port, tcp_port, config, exit_code, pending,
                   iter, hist_calls, last_wait, hist_iter, writes,
                   last_write, hist_signal, dir_state, hist_clear>>

\* str(port) of line 74: the port is already the str that re.search gave.
PyStr(p) == p

\* save_port_to_file, first half (line 73): open(port_file, 'w') creates or
\* truncates the file, or raises, which `except Exception` (line 76) logs;
\* main then logs "Port updated" (line 182) and goes to sleep.
SaveOpen_Raises ==
    /\ pc = "save"
    /\ writes' = Append(writes, current_port)
    /\ \E ok \in BOOLEAN :
         IF ok
         THEN /\ file' = FileWith("")
              /\ pc' = "write"
              /\ UNCHANGED <<log, last_write, pending>>
         ELSE /\ pc' = "finally"
              /\ pending' = 1
              /\ log' = log \cup {<<"main", "unexpected_error">>}
              /\ last_write' = [port |-> current_port, ok |-> FALSE]
              /\ UNCHANGED file
    /\ UNCHANGED <<current_port, udp_port, tcp_port, config, exit_code,
                   iter, hist_calls, last_wait, hist_iter,
                   validated, hist_signal, dir_state, hist_clear>>

SaveOpen ==
    /\ pc = "save"
    /\ writes' = Remember(writes, current_port)
    /\ \E ok \in BOOLEAN :
         IF ok
         THEN /\ file' = FileWith("")
              /\ pc' = "write"
              /\ UNCHANGED <<log, last_write>>
         ELSE /\ pc' = "sleep"
              /\ log' = log \cup {<<"save", "failed">>, <<"main", "updated">>}
              /\ last_write' = [port |-> current_port, ok |-> FALSE]
              /\ UNCHANGED file
    /\ UNCHANGED <<current_port, udp_port, tcp_port, config, exit_code,
                   pending, iter, hist_calls, last_wait, hist_iter,
                   validated, hist_signal, dir_state, hist_clear>>

\* save_port_to_file, second half (lines 74-77): write and close.  When the
\* write or the flush at close raises, the truncated file stays behind.
SaveWrite ==
    /\ pc = "write"
    /\ \E ok \in BOOLEAN :
         IF ok
         THEN /\ file' = FileWith(PyStr(current_port))
              /\ log' = log \cup {<<"save", "saved">>, <<"main", "updated">>}
              /\ last_write' = [port |-> current_port, ok |-> TRUE]
         ELSE /\ log' = log \cup {<<"save", "failed">>, <<"main", "updated">>}
              /\ last_write' = [port |-> current_port, ok |-> FALSE]
              /\ UNCHANGED file
    /\ pc' = "sleep"
    /\ UNCHANGED <<current_port, udp_port, tcp_port, config, exit_code,
                   pending, iter, hist_calls, last_wait, hist_iter,
                   validated, writes, hist_signal, dir_state, hist_clear>>

\* time.sleep(sleep_time) of line 187, then the next iteration.  A negative
\* sleep_time makes time.sleep raise ValueError, which `except Exception` of
\* main (lines 189-191) turns into return 1 (last_wait then records the
\* negative length, which was not waited).
Sleep ==
    /\ pc = "sleep"
    /\ last_wait' = [kind |-> "sleep", secs |-> sleep_time]
    /\ IF sleep_time < 0
       THEN /\ pc' = "finally"
            /\ pending' = 1
            /\ log' = log \cup {<<"main", "unexpected_error">>}
            /\ UNCHANGED <<iter, calls, hist_iter>>
       ELSE /\ BeginIteration
            /\ UNCHANGED pending
    /\ UNCHANGED <<file, current_port, udp_port, tcp_port, config,
                   exit_code, last_call, calls_after_signal,
                   validated, writes, last_write, hist_signal, dir_state,
                   hist_clear>>

\* time.sleep(5); continue of lines 158-159 and 168-169.
Backoff_SleepTime ==
    /\ pc = "backoff"
    /\ last_wait' = [kind |-> "backoff", secs |-> sleep_time]
    /\ BeginIteration
    /\ UNCHANGED <<file, current_port, udp_port, tcp_port, config,
                   exit_code, pending, last_call, calls_after_signal,
                   validated, writes, last_write, hist_signal, dir_state,
                   hist_clear>>

Backoff ==
    /\ pc = "backoff"
    /\ last_wait' = [kind |-> "backoff", secs |-> RETRY_SLEEP]
    /\ BeginIteration
    /\ UNCHANGED <<file, current_port, udp_port, tcp_port, config,
                   exit_code, pending, last_call, calls_after_signal,
                   validated, writes, last_write, hist_signal, dir_state,
                   hist_clear>>

\* Where control goes when handle_exit's sys.exit(0) (line 118) raises
\* SystemExit at position `at` of main.  SystemExit is no Exception, so
\* neither line 76 nor line 189 catches it.  Inside the try of lines 149-187
\* the finally block runs next; in setup_port_directory, and inside the
\* finally block itself, nothing encloses it and the process exits.
SystemExit_Returns(at) == [pc |-> at, code |-> Running]
SystemExit_CaughtByMain(at) == [pc |-> "finally", code |-> 1]
SystemExit(at) ==
    [pc |-> IF at \in {"setup_dir", "finally"} THEN "exited" ELSE "finally",
     code |-> 0]

\* os.path.exists(port_file)
os_path_exists(f) == f.exists

\* os.remove(port_file): removes an existing file, raises FileNotFoundError
\* when there is none.
os_remove(f) ==
    IF f.exists THEN [file |-> NoFile, removed |-> 1, error |-> FALSE]
    ELSE [file |-> f, removed |-> 0, error |-> TRUE]

\* The cleanup of lines 112-113 and of lines 195-196:
\* if os.path.exists(port_file): os.remove(port_file)
Clear_NoExistsCheck(f) == os_remove(f)
Clear(f) ==
    IF os_path_exists(f) THEN os_remove(f)
    ELSE [file |-> f, removed |-> 0, error |-> FALSE]

\* handle_exit (lines 108-118), run on SIGTERM or SIGINT at any point of
\* main: remove the port file if it exists (an error of the removal is
\* caught and logged, lines 115-116), then sys.exit(0).
handle_exit_NoCleanup ==
    /\ pc /= "exited"
    /\ clears < MaxClears
    /\ UNCHANGED <<file, hist_clear>>
    /\ signalled' = TRUE
    /\ signal_at' = IF signalled THEN signal_at ELSE pc
    /\ writes_at_signal' = IF signalled THEN writes_at_signal ELSE Len(writes)
    /\ LET u == SystemExit(pc)
       IN  /\ pc' = u.pc
           /\ pending' = IF u.code = Running THEN pending ELSE u.code
           /\ exit_code' = IF u.pc = "exited" THEN u.code ELSE exit_code
    /\ UNCHANGED <<current_port, udp_port, tcp_port, config, iter, log,
                   hist_calls, last_wait, hist_iter, validated, writes,
                   last_write, dir_state>>

handle_exit ==
    /\ pc /= "exited"
    /\ clears < MaxClears
    /\ LET c == Clear(file)
       IN  /\ file' = c.file
           /\ clears' = clears + 1
           /\ removes' = removes + c.removed
           /\ clear_errors' = clear_errors + (IF c.error THEN 1 ELSE 0)
    /\ signalled' = TRUE
    /\ signal_at' = IF signalled THEN signal_at ELSE pc
    /\ writes_at_signal' = IF signalled THEN writes_at_signal ELSE Len(writes)
    /\ LET u == SystemExit(pc)
       IN  /\ pc' = u.pc
           /\ pending' = IF u.code = Running THEN pending ELSE u.code
           /\ exit_code' = IF u.pc = "exited" THEN u.code ELSE exit_code
    /\ UNCHANGED <<current_port, udp_port, tcp_port, config, iter, log,
                   hist_calls, last_wait, hist_iter, validated, writes,
                   last_write, dir_state>>

\* The finally block of main (lines 193-197), then the exit of the process
\* with the status in flight: SystemExit's code, or main's return value
\* passed to sys.exit (line 206).  An error of os.remove is not caught here:
\* it leaves main as an uncaught exception, exit status 1.
Finally_NoCleanup ==
    /\ pc = "finally"
    /\ pc' = "exited"
    /\ exit_code' = pending
    /\ UNCHANGED <<file, current_port, udp_port, tcp_port, config,
                   pending, iter, log, hist_calls, last_wait, hist_iter,
                   validated, writes, last_write, hist_signal, dir_state,
                   hist_clear>>

Finally ==
    /\ pc = "finally"
    /\ LET c == Clear(file)
       IN  /\ file' = c.file
           /\ clears' = clears + 1
           /\ removes' = removes + c.removed
           /\ clear_errors' = clear_errors + (IF c.error THEN 1 ELSE 0)
           /\ exit_code' = IF c.error THEN 1 ELSE pending
    /\ pc' = "exited"
    /\ UNCHANGED <<current_port, udp_port, tcp_port, config, pending,
                   iter, log, hist_calls, last_wait, hist_iter,
                   validated, writes, last_write, hist_signal, dir_state>>

Next ==
    \/ setup_port_directory
    \/ RequestUDP
    \/ RequestTCP
    \/ Validate
    \/ SaveOpen
    \/ SaveWrite
    \/ Sleep
    \/ Backoff
    \/ handle_exit
    \/ Finally

Spec == Init /\ [][Next]_vars

\* Top of the while loop (line 151) once MaxIter iterations were counted:
\* the loop goes on, the count and the histories stay where they are.
ContinueIteration ==
    /\ iter = MaxIter
    /\ pc' = "udp"
    /\ log' = {}
    /\ calls' = <<>>
    /\ iter_file' = file
    /\ iter_port' = current_port
    /\ iter_nwrites' = Len(writes)
    /\ UNCHANGED iter

\* time.sleep(sleep_time) of line 187 after the counted iterations.
SleepOn ==
    /\ pc = "sleep"
    /\ sleep_time >= 0
    /\ last_wait' = [kind |-> "sleep", secs |-> sleep_time]
    /\ ContinueIteration
    /\ UNCHANGED <<file, current_port, udp_port, tcp_port, config,
                   exit_code, pending, last_call, calls_after_signal,
                   validated, writes, last_write, hist_signal, dir_state,
                   hist_clear>>

\* time.sleep(5); continue of lines 158-159 and 168-169 after the counted
\* iterations.
BackoffOn ==
    /\ pc = "backoff"
    /\ last_wait' = [kind |-> "backoff", secs |-> RETRY_SLEEP]
    /\ ContinueIteration
    /\ UNCHANGED <<file, current_port, udp_port, tcp_port, config,
                   exit_code, pending, last_call, calls_after_signal,
                   validated, writes, last_write, hist_signal, dir_state,
                   hist_clear>>

\* The steps of the main thread, the loop running for ever.
Loop ==
    \/ setup_port_directory
    \/ RequestUDP
    \/ RequestTCP
    \/ Validate
    \/ SaveOpen
    \/ SaveWrite
    \/ Sleep
    \/ Backoff
    \/ SleepOn
    \/ BackoffOn
    \/ Finally

LiveNext ==
    \/ Loop
    \/ handle_exit

\* The program with its loop unbounded.  The main thread is the only thread
\* and blocks only in natpmpc calls and sleeps that return: it takes its
\* next step whenever it has one.
FairSpec == Init /\ [][LiveNext]_vars /\ WF_vars(Loop)

TypeOK ==
    /\ pc \in {"setup_dir", "udp", "tcp", "validate", "save", "write",
               "sleep", "backoff", "finally", "exited"}
    /\ file \in {NoFile} \cup {FileWith(c) : c \in Ports \cup {""}}
    /\ current_port \in Ports \cup {None}
    /\ udp_port \in Ports \cup {None}
    /\ tcp_port \in Ports \cup {None}
    /\ iter \in 0..MaxIter
    /\ exit_code \in {Running, 0, 1}

\* ------------------------------------------------------------- properties
\* The loop is between two iterations: at time.sleep of line 187 or at the
\* time.sleep(5) of lines 158 / 168.
IterationEnd == pc \in {"sleep", "backoff"}
Last(q) == q[Len(q)]
BothExtracted == Truthy(udp_port) /\ Truthy(tcp_port)
\* save_port_to_file was called, and returned, in the current iteration.
SavedThisIteration == Len(writes) > iter_nwrites

\* C1: at the end of every iteration the port file holds the most recently
\* validated canonical port, never an older, empty or partial value.
C1_FileHoldsLatestValidated ==
    (IterationEnd /\ validated /= <<>>) => file = FileWith(Last(validated))

\* C2: when a natpmpc call (UDP or TCP) exits non-zero the iteration goes to
\* backoff, and the port file and current_port are as they were when the
\* iteration started; they are still so when the retry wait is over.
C2_ToolFailureKeepsPublishedPort ==
    /\ (last_call.exit = "nonzero" /\ last_call.iter = iter /\ ~signalled)
          => /\ pc = "backoff"
             /\ file = iter_file
             /\ current_port = iter_port
             /\ Len(writes) = iter_nwrites
    /\ (pc = "udp" /\ last_wait.kind = "backoff")
          => file = iter_file /\ current_port = iter_port

\* C2 witness: the TCP call failed while a port was published; the file and
\* current_port still hold it in backoff.
C2_Witness ==
    /\ pc = "backoff"
    /\ last_call = [proto |-> "tcp", exit |-> "nonzero", empty |-> FALSE,
                    iter |-> iter]
    /\ current_port \in Ports
    /\ file = FileWith(current_port)

\* C3: once a signal has been handled no natpmpc call is issued any more,
\* control is in the cleanup path or the process has exited, and the exit
\* status is 0.
C3_SignalStopsCallsExitZero ==
    signalled =>
        /\ calls_after_signal = 0
        /\ pc \in {"finally", "exited"}
        /\ pending = 0
        /\ pc = "exited" => exit_code = 0

\* C3 witness: the signal arrived during time.sleep(sleep_time) and the
\* process has exited with status 0.
C3_Witness ==
    /\ signalled
    /\ signal_at = "sleep"
    /\ pc = "exited"
    /\ exit_code = 0
    /\ last_call.exit = "zero"

\* C4: once handle_exit has run, whatever the point of the iteration it
\* interrupted, the port file does not exist, no save_port_to_file starts or
\* continues, and the file does not exist when the process has exited.
C4_NoWriteAfterHandler ==
    signalled =>
        /\ ~file.exists
        /\ Len(writes) = writes_at_signal
        /\ pc \notin {"save", "write"}

\* C4 witness: the signal arrived between open() and write() of
\* save_port_to_file, after current_port was updated; the process exited and
\* there is no file.
C4_Witness ==
    /\ signalled
    /\ signal_at = "write"
    /\ current_port \in Ports
    /\ pc = "exited"
    /\ ~file.exists

\* C4 witness, second point: the signal arrived between the update of
\* current_port and the call of save_port_to_file.
C4_WitnessBeforeOpen ==
    /\ signalled
    /\ signal_at = "save"
    /\ pc = "exited"
    /\ ~file.exists

\* C5: after a failed write of the port file, current_port is not the port
\* whose write failed (so that the next validation of that port writes
\* again).
C5_FailedWriteNotRemembered ==
    ~last_write.ok => current_port /= last_write.port

\* C6: a natpmpc call that exits zero without the pattern in its output is a
\* missing port, not a failure: the retry backoff is entered only after a
\* non-zero exit, and an iteration that ends with a port missing has
\* published nothing and changed neither the file nor current_port.
C6_ZeroExitNeverBacksOff ==
    /\ pc = "backoff" => last_call.exit = "nonzero"
    /\ (pc = "sleep" /\ ~BothExtracted)
          => /\ file = iter_file
             /\ current_port = iter_port
             /\ Len(writes) = iter_nwrites

\* C7: when both ports are extracted and differ, the iteration goes on to
\* publish: current_port is the TCP port, and a save_port_to_file of this
\* iteration was given the TCP port and, when it succeeded, left it in the
\* file.
C7_MismatchPublishesTcp ==
    (pc \in {"save", "write", "sleep"} /\ BothExtracted
        /\ udp_port /= tcp_port)
      => /\ current_port = tcp_port
         /\ Last(validated) = tcp_port
         /\ pending = Running
         /\ SavedThisIteration
               => /\ Last(writes) = tcp_port
                  /\ pc = "sleep" => last_write.port = tcp_port
                  /\ (pc = "sleep" /\ last_write.ok)
                        => file = FileWith(tcp_port)

\* C7 witness: UDP and TCP ports differ and the TCP port was written.
C7_Witness ==
    /\ pc = "sleep"
    /\ BothExtracted
    /\ udp_port /= tcp_port
    /\ iter_port = udp_port
    /\ SavedThisIteration
    /\ file = FileWith(tcp_port)

\* C8: the mismatch warning is in the iteration's log exactly when both
\* ports were extracted and are unequal; when they are equal there is no
\* warning and save_port_to_file is called exactly when the port differs
\* from the current_port the iteration started with.
C8_MismatchWarningIff ==
    /\ pc \in {"udp", "tcp", "validate", "backoff"}
          => <<"main", "mismatch">> \notin log
    /\ pc \in {"save", "write", "sleep"}
          => /\ <<"main", "mismatch">> \in log
                   <=> (BothExtracted /\ udp_port /= tcp_port)
             /\ (BothExtracted /\ udp_port = tcp_port)
                   => ((pc \in {"save", "write"} \/ SavedThisIteration)
                          <=> tcp_port /= iter_port)

\* C8 witness: equal ports, no warning, and the changed port was published.
C8_Witness ==
    /\ pc = "sleep"
    /\ BothExtracted
    /\ udp_port = tcp_port
    /\ iter_port \in Ports
    /\ tcp_port /= iter_port
    /\ <<"main", "mismatch">> \notin log
    /\ file = FileWith(tcp_port)

\* The sequence q with every run of equal neighbours reduced to one element.
RECURSIVE Collapse(_)
Collapse(q) ==
    IF Len(q) <= 1 THEN q
    ELSE IF q[1] = q[2] THEN Collapse(Tail(q))
    ELSE <<q[1]>> \o Collapse(Tail(q))

\* C9: save_port_to_file is called only for a validated port that differs
\* from current_port: the ports written are the validated ports with
\* repetitions collapsed, one write per change (the write of the latest
\* change may still be about to start, or was cut off there by a signal).
C9_OneWritePerChange ==
    \/ writes = Collapse(validated)
    \/ /\ pc = "save" \/ (signalled /\ signal_at = "save")
       /\ validated /= <<>>
       /\ Append(writes, Last(validated)) = Collapse(validated)

\* C9 witness: port A validated twice, then port B: two writes, A then B.
C9_Witness ==
    /\ pc = "sleep"
    /\ Len(validated) = 3
    /\ validated[1] = validated[2]
    /\ validated[2] /= validated[3]
    /\ writes = <<validated[1], validated[3]>>
    /\ file = FileWith(validated[3])

\* C10: a UDP request that follows a non-zero exit was preceded by the
\* 5-second retry wait, not by the sleep_time wait, and the failed iteration
\* called save_port_to_file not once.
C10_FailureWaitsRetrySleep ==
    /\ (pc = "udp" /\ last_call.exit = "nonzero")
          => last_wait = [kind |-> "backoff", secs |-> RETRY_SLEEP]
    /\ (last_call.exit = "nonzero" /\ last_call.iter = iter)
          => Len(writes) = iter_nwrites /\ ~SavedThisIteration
    /\ pc = "backoff" => file = iter_file

\* C10 witness: sleep_time is 45, the UDP call failed, and the next UDP
\* request comes after a wait of 5.
C10_Witness ==
    /\ pc = "udp"
    /\ sleep_time = DEFAULT_SLEEP_TIME
    /\ last_call.proto = "udp"
    /\ last_call.exit = "nonzero"
    /\ last_wait.secs = RETRY_SLEEP
    /\ last_wait.secs /= sleep_time

\* An exception other than the handled tool failure reached `except
\* Exception` of main: subprocess.run could not start natpmpc, or time.sleep
\* refused a negative length.
UnhandledError ==
    \/ last_call.exit = "oserror"
    \/ last_wait.kind = "sleep" /\ last_wait.secs < 0

\* C11: when the loop ends on an unhandled runtime error (and no signal
\* interferes), the port file is gone and the exit status is 1.
C11_ErrorCleansUpExitOne ==
    (UnhandledError /\ ~signalled)
      => /\ pc \in {"finally", "exited"}
         /\ pending = 1
         /\ pc = "exited" => (exit_code = 1 /\ ~file.exists /\ clears = 1)

\* C11 witness: natpmpc could not be started while a port was published;
\* the file was removed and the process exited with 1.
C11_Witness ==
    /\ pc = "exited"
    /\ last_call.exit = "oserror"
    /\ ~signalled
    /\ iter_file.exists
    /\ current_port \in Ports
    /\ removes = 1
    /\ exit_code = 1
    /\ ~file.exists

Terminated == pc = "exited" /\ (signalled \/ UnhandledError)

FileValues == {NoFile} \cup {FileWith(c) : c \in Ports \cup {""}}

\* C13: the cleanup is idempotent: no cleanup raises, after a cleanup there
\* is no port file, and that also when it runs twice in a row or on a file
\* that was never created.
C13_ClearIdempotent ==
    /\ clear_errors = 0
    /\ clears >= 1 => ~file.exists
    /\ (pc = "exited" /\ signalled) => exit_code = 0
    /\ \A f \in FileValues :
          LET once == Clear(f)
              twice == Clear(once.file)
          IN  /\ ~once.error /\ ~twice.error
              /\ ~twice.file.exists
              /\ twice.file = once.file

\* C13 witness: the handler's removal followed by the finally block's
\* cleanup, which found no file.
C13_Witness ==
    /\ pc = "exited"
    /\ signalled
    /\ clears = 2
    /\ removes = 1
    /\ clear_errors = 0
    /\ ~file.exists

\* C13 witness, second case: two cleanups of a file that never existed.
C13_WitnessNeverCreated ==
    /\ pc = "exited"
    /\ clears = 2
    /\ removes = 0
    /\ writes = <<>>
    /\ ~file.exists

\* C14: tool failures, missing ports, mismatches and failed writes never
\* end the loop: control is in the cleanup path or the process has exited
\* only after a signal, an unhandled runtime error or a failed creation of
\* the directory.
C14_LoopEndsOnlyOnSignalOrError ==
    pc \in {"finally", "exited"}
      => (signalled \/ UnhandledError \/ dir_state = "failed")

\* C14 witness: after a failed write and a tool failure the loop is
\* requesting again.
C14_Witness ==
    /\ pc = "udp"
    /\ iter >= 3
    /\ ~last_write.ok
    /\ last_call.exit = "nonzero"
    /\ pending = Running

\* C15: when the directory of the port file cannot be created the process
\* has exited with status 1, and no iteration started: no natpmpc call, no
\* save_port_to_file, the port file untouched.
C15_DirFailureExitsAtOnce ==
    dir_state = "failed"
      => /\ pc = "exited"
         /\ exit_code = 1
         /\ iter = 0
         /\ last_call = NoCall
         /\ calls = <<>>
         /\ writes = <<>>
         /\ file = iter_file

\* C15 witness: mkdir failed and the process exited.
C15_Witness ==
    /\ dir_state = "failed"
    /\ pc = "exited"
    /\ exit_code = 1
    /\ ~signalled

\* C16: whenever the port file exists the process is running and
\* current_port is set.
C16_FileOnlyWhileRunningWithPort ==
    file.exists => (pc /= "exited" /\ current_port \in Ports)

\* C17: an iteration runs natpmpc at most twice, for UDP and then for TCP,
\* with the configured external port, local port, lifetime and gateway in
\* both; the TCP run follows a UDP run that exited zero, and a run that did
\* not exit zero is the last of its iteration.
C17_OneCallPerProtocol ==
    /\ Len(calls) <= 2
    /\ Len(calls) >= 1 => calls[1].cmd[5] = "udp"
    /\ Len(calls) = 2
          => /\ calls[2].cmd[5] = "tcp"
             /\ calls[1].exit = "zero"
             /\ \A k \in {1, 2, 3, 4, 6, 7, 8} :
                   calls[1].cmd[k] = calls[2].cmd[k]
    /\ \A i \in 1..Len(calls) :
          /\ calls[i].cmd[3] = DEFAULT_EXTERNAL_PORT
          /\ calls[i].cmd[4] = DEFAULT_LOCAL_PORT
          /\ calls[i].cmd[6] = forward_lifetime
          /\ calls[i].cmd[8] = DEFAULT_GATEWAY_IP
          /\ calls[i].exit /= "zero" => i = Len(calls)
    /\ pc = "tcp" => Len(calls) = 1 /\ calls[1].exit = "zero"

\* C17 witness: with a lifetime that is not the default, the UDP run exited
\* zero, the TCP run did not, and the iteration is in backoff.
C17_Witness ==
    /\ pc = "backoff"
    /\ forward_lifetime /= DEFAULT_FORWARD_LIFETIME
    /\ Len(calls) = 2
    /\ calls[1].exit = "zero"
    /\ calls[2].exit = "nonzero"

\* C19: a sleep_time that was waited is shorter than the lifetime requested
\* for the mappings.
C19_SleepShorterThanLifetime ==
    (last_wait.kind = "sleep" /\ last_wait.secs >= 0)
      => last_wait.secs < forward_lifetime

\* The loop is in the regime of C18 for port P: no signal, no unhandled
\* error, the latest natpmpc runs exited zero and both extracted ports are
\* P, and no write of the current iteration failed.
SteadyGood(P) ==
    /\ ~signalled
    /\ ~UnhandledError
    /\ pc \in {"udp", "tcp", "validate", "save", "write", "sleep"}
    /\ last_call.exit = "zero"
    /\ udp_port = P
    /\ tcp_port = P
    /\ <<"save", "failed">> \notin log

\* C18: if from some point on every natpmpc run succeeds with the same port
\* P, no write fails and no signal or error occurs, then the port file
\* eventually holds P and keeps holding it, whatever failed before.
C18_EventuallyPublished ==
    \A P \in Ports : <>[]SteadyGood(P) => <>[](file = FileWith(P))

====
